---- MODULE Spec2Model ----
(***************************************************************************)
(* Model of the buffer reconciler of the Ruff plugin for CudaText          *)
(* (src/linter.py, class Command): _apply_changes_preserving_states and    *)
(* its callers fix_file, fix_file_unsafe and format_file.                  *)
(*                                                                         *)
(* A text is a sequence of one-character strings over {"a", "b", "\n"}.   *)
(* The host editor object `ed` is a record                                 *)
(*   lines  : the document, a non-empty sequence of lines (no terminator   *)
(*            stored; a text ending in "\n" has an empty last line),       *)
(*   states : one line-state tag per line,                                 *)
(*   caret  : <<x, y>> of the first caret,                                 *)
(*   calls  : the host calls issued so far, in order.                      *)
(* Rows and columns are 0-based as in the host API.                        *)
(***************************************************************************)
EXTENDS Integers, Sequences, FiniteSets, TLC

\* Bounds of the model.
MaxLines == 3        \* lines of the document when a command starts
MaxNewLines == 3     \* host lines of the text the tool (or caller) supplies
MaxCmdLines == 2     \* lines of the document when a menu command starts
MaxToolLines == 2    \* host lines of the text the tool prints

NL == "\n"
LineSet == {<<>>, <<"a">>, <<"b">>}

LINESTATE_NORMAL == "normal"
LINESTATE_CHANGED == "changed"
LINESTATE_ADDED == "added"
LINESTATE_SAVED == "saved"

Min(x, y) == IF x <= y THEN x ELSE y

\* Sequences over S of length lo..hi.
SeqsOf(S, lo, hi) == UNION {[1..n -> S] : n \in lo..hi}

\* s[lo:hi] of Python, 0-based and half-open.
Slice(s, lo, hi) == SubSeq(s, lo + 1, hi)

----------------------------------------------------------------------------
\* Text <-> lines conversions.

\* 1-based index of the first "\n" of t, 0 when there is none.
FirstNL(t) ==
    IF \E i \in 1..Len(t) : t[i] = NL
    THEN CHOOSE i \in 1..Len(t) : t[i] = NL /\ \A j \in 1..(i - 1) : t[j] # NL
    ELSE 0

\* str.splitlines(keepends=False): a final terminator opens no further line,
\* and the empty text has no line.
RECURSIVE splitlines(_)
splitlines(t) ==
    IF t = <<>> THEN <<>>
    ELSE LET i == FirstNL(t) IN
         IF i = 0 THEN <<t>>
         ELSE <<SubSeq(t, 1, i - 1)>> \o splitlines(SubSeq(t, i + 1, Len(t)))

\* The host's view of a text: every terminator opens a further line, so the
\* result is never empty.
RECURSIVE HostSplit(_)
HostSplit(t) ==
    LET i == FirstNL(t) IN
    IF i = 0 THEN <<t>>
    ELSE <<SubSeq(t, 1, i - 1)>> \o HostSplit(SubSeq(t, i + 1, Len(t)))

\* Lines joined by "\n".
RECURSIVE JoinLines(_)
JoinLines(ls) ==
    IF Len(ls) = 0 THEN <<>>
    ELSE IF Len(ls) = 1 THEN ls[1]
    ELSE ls[1] \o <<NL>> \o JoinLines(Tail(ls))

\* new_text.endswith('\n')
EndsWithNL(t) == Len(t) > 0 /\ t[Len(t)] = NL

----------------------------------------------------------------------------
\* The host document API (cudatext `ed`), as far as the plugin uses it.

Log(e, name) == [e EXCEPT !.calls = Append(@, name)]

\* The tag the host gives a line whose content an edit rewrites.
Touch(s) == IF s = LINESTATE_ADDED THEN LINESTATE_ADDED ELSE LINESTATE_CHANGED

get_text_all(e) == JoinLines(e.lines)
get_line_count(e) == Len(e.lines)
get_line_len(e, y) == IF y >= 0 /\ y < Len(e.lines) THEN Len(e.lines[y + 1]) ELSE -1
get_text_line(e, y) == IF y >= 0 /\ y < Len(e.lines) THEN e.lines[y + 1] ELSE <<>>

\* Removal of the range (x1,y1)..(x2,y2).  A position past the end of the
\* document is the end of the document; deleting whole lines (both columns
\* 0) leaves the following line and its tag untouched.
HostDelete(e, x1, y1, x2, y2) ==
    LET n == Len(e.lines) IN
    IF y1 < 0 \/ y1 >= n THEN e
    ELSE
    LET Y2 == IF y2 >= n THEN n - 1 ELSE y2
        L1 == e.lines[y1 + 1]
        L2 == e.lines[Y2 + 1]
        X1 == Min(x1, Len(L1))
        X2 == IF y2 >= n THEN Len(L2) ELSE Min(x2, Len(L2))
    IN
    IF Y2 < y1 \/ (Y2 = y1 /\ X2 <= X1) THEN e
    ELSE IF Y2 = y1 THEN
        [e EXCEPT !.lines[y1 + 1] = Slice(L1, 0, X1) \o Slice(L1, X2, Len(L1)),
                  !.states[y1 + 1] = Touch(@)]
    ELSE
        LET merged == Slice(L1, 0, X1) \o Slice(L2, X2, Len(L2))
            st == IF X1 = 0 /\ X2 = 0 THEN e.states[Y2 + 1]
                  ELSE IF X1 = Len(L1) /\ X2 = Len(L2) THEN e.states[y1 + 1]
                  ELSE Touch(e.states[y1 + 1])
        IN [e EXCEPT !.lines = Slice(e.lines, 0, y1) \o <<merged>> \o Slice(e.lines, Y2 + 1, n),
                     !.states = Slice(e.states, 0, y1) \o <<st>> \o Slice(e.states, Y2 + 1, n)]

\* Insertion of text t at (x,y).  A row past the end appends the block to
\* the end of the final line.  Whole lines inserted at column 0 are new
\* ("added") lines and leave the line they push down untouched.
HostInsert(e, x, y, t) ==
    LET n == Len(e.lines) IN
    IF y < 0 \/ t = <<>> THEN e
    ELSE
    LET Y == IF y >= n THEN n - 1 ELSE y
        L == e.lines[Y + 1]
        X == IF y >= n THEN Len(L) ELSE Min(x, Len(L))
        s == e.states[Y + 1]
        pre == Slice(L, 0, X)
        post == Slice(L, X, Len(L))
        parts == HostSplit(t)
        m == Len(parts)
    IN
    IF m = 1 THEN
        [e EXCEPT !.lines[Y + 1] = pre \o t \o post, !.states[Y + 1] = Touch(@)]
    ELSE
        LET rows == [r \in 1..m |->
                        IF r = 1 THEN pre \o parts[1]
                        ELSE IF r = m THEN parts[m] \o post
                        ELSE parts[r]]
            keepLast == X = 0 /\ parts[m] = <<>>
            keepFirst == ~keepLast /\ X = Len(L) /\ parts[1] = <<>>
            tags == [r \in 1..m |->
                        IF r = m /\ keepLast THEN s
                        ELSE IF r = 1 /\ keepFirst THEN s
                        ELSE IF r = 1 /\ ~keepLast THEN Touch(s)
                        ELSE LINESTATE_ADDED]
        IN [e EXCEPT !.lines = Slice(e.lines, 0, Y) \o rows \o Slice(e.lines, Y + 1, n),
                     !.states = Slice(e.states, 0, Y) \o tags \o Slice(e.states, Y + 1, n)]

ed_delete(e, x1, y1, x2, y2) == Log(HostDelete(e, x1, y1, x2, y2), "delete")
ed_insert(e, x, y, t) == Log(HostInsert(e, x, y, t), "insert")
\* replace = delete of the range, then insert at its start.
ed_replace(e, x1, y1, x2, y2, t) ==
    Log(HostInsert(HostDelete(e, x1, y1, x2, y2), x1, y1, t), "replace")
\* set_prop(PROP_LINE_STATE, (y, s)); an invalid row is ignored.
ed_set_line_state(e, y, s) ==
    Log(IF y >= 0 /\ y < Len(e.lines) THEN [e EXCEPT !.states[y + 1] = s] ELSE e,
        "set_line_state")
ed_set_caret(e, x, y) == Log([e EXCEPT !.caret = <<x, y>>], "set_caret")

----------------------------------------------------------------------------
\* difflib.SequenceMatcher(None, a, b).get_opcodes(), for sequences of lines
\* (no junk; the sequences are far below the autojunk threshold).
\* Indices are 0-based and ranges half-open, as in Python.

\* All matching blocks <<i, j, k>> with k >= 1 inside a[alo:ahi], b[blo:bhi].
Matches(a, b, alo, ahi, blo, bhi) ==
    {m \in (alo..(ahi - 1)) \X (blo..(bhi - 1)) \X (1..(ahi - alo)) :
        /\ m[1] + m[3] <= ahi
        /\ m[2] + m[3] <= bhi
        /\ \A d \in 0..(m[3] - 1) : a[m[1] + d + 1] = b[m[2] + d + 1]}

\* find_longest_match: the longest block, of those the one starting earliest
\* in a, of those the one starting earliest in b; <<alo, blo, 0>> if none.
find_longest_match(a, b, alo, ahi, blo, bhi) ==
    LET M == Matches(a, b, alo, ahi, blo, bhi) IN
    IF M = {} THEN <<alo, blo, 0>>
    ELSE CHOOSE m \in M : \A n \in M :
            \/ m[3] > n[3]
            \/ m[3] = n[3] /\ m[1] < n[1]
            \/ m[3] = n[3] /\ m[1] = n[1] /\ m[2] <= n[2]

\* The recursion of get_matching_blocks: the longest match, then the pieces
\* to its left and to its right, in increasing order.
RECURSIVE matching_blocks_in(_, _, _, _, _, _)
matching_blocks_in(a, b, alo, ahi, blo, bhi) ==
    LET m == find_longest_match(a, b, alo, ahi, blo, bhi)
        i == m[1]
        j == m[2]
        k == m[3]
    IN
    IF k = 0 THEN <<>>
    ELSE (IF alo < i /\ blo < j
          THEN matching_blocks_in(a, b, alo, i, blo, j) ELSE <<>>)
         \o <<m>> \o
         (IF i + k < ahi /\ j + k < bhi
          THEN matching_blocks_in(a, b, i + k, ahi, j + k, bhi) ELSE <<>>)

\* Adjacent blocks are merged into one; cur is the block being grown.
RECURSIVE collapse_blocks(_, _)
collapse_blocks(blocks, cur) ==
    IF blocks = <<>> THEN (IF cur[3] > 0 THEN <<cur>> ELSE <<>>)
    ELSE LET nxt == Head(blocks) IN
         IF cur[1] + cur[3] = nxt[1] /\ cur[2] + cur[3] = nxt[2]
         THEN collapse_blocks(Tail(blocks), <<cur[1], cur[2], cur[3] + nxt[3]>>)
         ELSE (IF cur[3] > 0 THEN <<cur>> ELSE <<>>)
              \o collapse_blocks(Tail(blocks), nxt)

\* get_matching_blocks: the merged blocks and the sentinel <<la, lb, 0>>.
get_matching_blocks(a, b) ==
    collapse_blocks(matching_blocks_in(a, b, 0, Len(a), 0, Len(b)), <<0, 0, 0>>)
        \o <<<<Len(a), Len(b), 0>>>>

Opcode(tag, i1, i2, j1, j2) == [tag |-> tag, i1 |-> i1, i2 |-> i2, j1 |-> j1, j2 |-> j2]

\* The loop of get_opcodes over the matching blocks, from position (i, j).
RECURSIVE opcodes_from(_, _, _)
opcodes_from(blocks, i, j) ==
    IF blocks = <<>> THEN <<>>
    ELSE LET ai == Head(blocks)[1]
             bj == Head(blocks)[2]
             size == Head(blocks)[3]
             gap == IF i < ai /\ j < bj THEN <<Opcode("replace", i, ai, j, bj)>>
                    ELSE IF i < ai THEN <<Opcode("delete", i, ai, j, bj)>>
                    ELSE IF j < bj THEN <<Opcode("insert", i, ai, j, bj)>>
                    ELSE <<>>
             eq == IF size > 0
                   THEN <<Opcode("equal", ai, ai + size, bj, bj + size)>>
                   ELSE <<>>
         IN gap \o eq \o opcodes_from(Tail(blocks), ai + size, bj + size)

get_opcodes(a, b) == opcodes_from(get_matching_blocks(a, b), 0, 0)

----------------------------------------------------------------------------
\* Command._apply_changes_preserving_states

\* Path without the short-circuit for identical texts.
PathNoShortCircuit(ot, nt) ==
    IF Len(splitlines(ot)) = Len(splitlines(nt)) THEN "fast" ELSE "slow"

\* Which branch a call takes.
Path(ot, nt) ==
    IF ot = nt THEN "none"
    ELSE IF Len(splitlines(ot)) = Len(splitlines(nt)) THEN "fast"
    ELSE "slow"

\* RestoreCaret that clamps the row only.
RestoreCaretRowOnly(e, caret_x, caret_y) ==
    LET new_line_count == get_line_count(e)
        y == IF caret_y >= new_line_count THEN new_line_count - 1 ELSE caret_y
    IN ed_set_caret(Log(Log(e, "get_line_count"), "get_line_len"), caret_x, y)

\* "Restore caret position": clamp the saved caret to the document, set it.
RestoreCaret(e, caret_x, caret_y) ==
    LET new_line_count == get_line_count(e)
        y == IF caret_y >= new_line_count THEN new_line_count - 1 ELSE caret_y
        new_line_len == get_line_len(e, y)
        x == IF caret_x > new_line_len THEN new_line_len ELSE caret_x
    IN ed_set_caret(Log(Log(e, "get_line_count"), "get_line_len"), x, y)

\* RestoreStates that compares nothing and tags every line "changed".
RECURSIVE RestoreStatesMarkAll(_, _, _, _, _)
RestoreStatesMarkAll(e, ol, nl, os, i) ==
    IF i >= Len(nl) THEN e
    ELSE RestoreStatesMarkAll(ed_set_line_state(e, i, LINESTATE_CHANGED), ol, nl, os, i + 1)

\* "Restore states for unchanged lines": the loop over range(len(new_lines)),
\* from index i on.
RECURSIVE RestoreStates(_, _, _, _, _)
RestoreStates(e, ol, nl, os, i) ==
    IF i >= Len(nl) THEN e
    ELSE IF i < Len(ol) /\ ol[i + 1] = nl[i + 1]
         THEN RestoreStates(ed_set_line_state(e, i, os[i + 1]), ol, nl, os, i + 1)
         ELSE RestoreStates(ed_set_line_state(e, i, LINESTATE_CHANGED), ol, nl, os, i + 1)

\* RestoreLineStates that wants more states than old lines.
RestoreLineStatesStrictLength(e, ol, nl, os) ==
    IF os # <<>> /\ Len(os) > Len(ol)
    THEN RestoreStates(e, ol, nl, os, 0)
    ELSE e

\* if old_states and len(old_states) >= len(old_lines): the loop, else nothing.
RestoreLineStates(e, ol, nl, os) ==
    IF os # <<>> /\ Len(os) >= Len(ol)
    THEN RestoreStates(e, ol, nl, os, 0)
    ELSE e

\* FastPath that reads the line states only after the replace.
FastPathLateSnapshot(e, ol, nl, nt) ==
    LET caret_x == e.caret[1]
        caret_y == e.caret[2]
        line_count == get_line_count(e)
        last_line_len == get_line_len(e, line_count - 1)
        e1 == Log(Log(Log(e, "get_carets"), "get_line_count"), "get_line_len")
        e2 == Log(ed_replace(e1, 0, 0, last_line_len, line_count - 1, nt), "get_line_states")
        os == e2.states
        e3 == RestoreLineStates(e2, ol, nl, os)
    IN Log(RestoreCaret(e3, caret_x, caret_y), "action_update")

\* FastPath whose replace ends at column 0 of the last row.
FastPathShortRange(e, ol, nl, nt) ==
    LET os == e.states
        caret_x == e.caret[1]
        caret_y == e.caret[2]
        line_count == get_line_count(e)
        e1 == Log(Log(Log(Log(e, "get_line_states"), "get_carets"),
                      "get_line_count"), "get_line_len")
        e2 == ed_replace(e1, 0, 0, 0, line_count - 1, nt)
        e3 == RestoreLineStates(e2, ol, nl, os)
    IN Log(RestoreCaret(e3, caret_x, caret_y), "action_update")

\* Fast path 2: snapshot states and caret, one replace of the whole
\* document, states, caret, update.
FastPath(e, ol, nl, nt) ==
    LET os == e.states
        caret_x == e.caret[1]
        caret_y == e.caret[2]
        line_count == get_line_count(e)
        last_line_len == get_line_len(e, line_count - 1)
        e1 == Log(Log(Log(Log(e, "get_line_states"), "get_carets"),
                      "get_line_count"), "get_line_len")
        e2 == ed_replace(e1, 0, 0, last_line_len, line_count - 1, nt)
        e3 == RestoreLineStates(e2, ol, nl, os)
    IN Log(RestoreCaret(e3, caret_x, caret_y), "action_update")

\* for _ in range(n): ed.delete(0, row, 0, row + 1)
RECURSIVE DeleteLines(_, _, _)
DeleteLines(e, row, n) ==
    IF n <= 0 THEN e
    ELSE DeleteLines(ed_delete(e, 0, row, 0, row + 1), row, n - 1)

\* for idx in range(j1, j2): ed.insert(0, row, new_lines[idx] + '\n'); row += 1
RECURSIVE InsertLines(_, _, _, _, _)
InsertLines(e, row, nl, idx, j2) ==
    IF idx >= j2 THEN e
    ELSE InsertLines(ed_insert(e, 0, row, nl[idx + 1] \o <<NL>>), row + 1, nl, idx + 1, j2)

\* The body of the loop over the opcodes, for one opcode.
ApplyOpcode(e, op, off, nl) ==
    LET adj_i1 == op.i1 + off IN
    CASE op.tag = "equal" -> e
      [] op.tag = "replace" ->
            InsertLines(DeleteLines(e, adj_i1, op.i2 - op.i1), adj_i1, nl, op.j1, op.j2)
      [] op.tag = "delete" -> DeleteLines(e, adj_i1, op.i2 - op.i1)
      [] op.tag = "insert" -> InsertLines(e, adj_i1, nl, op.j1, op.j2)

\* The offset after the opcode.
NextOffset(op, off) ==
    CASE op.tag = "equal" -> off
      [] op.tag = "replace" -> off + (op.j2 - op.j1) - (op.i2 - op.i1)
      [] op.tag = "delete" -> off - (op.i2 - op.i1)
      [] op.tag = "insert" -> off + (op.j2 - op.j1)

\* "Ensure last line has newline".
EnsureLastNewline(e, nt) ==
    IF EndsWithNL(nt)
    THEN LET last_line_idx == get_line_count(e) - 1
             last_line_text == get_text_line(e, last_line_idx)
             last_line_len == get_line_len(e, last_line_idx)
             e1 == Log(Log(Log(e, "get_line_count"), "get_text_line"), "get_line_len")
         IN ed_replace(e1, 0, last_line_idx, last_line_len, last_line_idx,
                       last_line_text \o <<NL>>)
    ELSE e

\* SlowFinish that signals the update before it restores the caret.
SlowFinishUpdateFirst(e, nt, caret_x, caret_y) ==
    RestoreCaret(Log(EnsureLastNewline(e, nt), "action_update"), caret_x, caret_y)

\* What follows the loop on the slow path.
SlowFinish(e, nt, caret_x, caret_y) ==
    Log(RestoreCaret(EnsureLastNewline(e, nt), caret_x, caret_y), "action_update")

\* The whole loop over opcodes ops[k..], starting with offset off.
RECURSIVE ApplyOpcodes(_, _, _, _, _)
ApplyOpcodes(e, ops, k, off, nl) ==
    IF k > Len(ops) THEN e
    ELSE ApplyOpcodes(ApplyOpcode(e, ops[k], off, nl), ops, k + 1,
                      NextOffset(ops[k], off), nl)

\* Slow path as a whole.
SlowPath(e, ol, nl, nt) ==
    LET e1 == Log(e, "get_carets")
        ops == get_opcodes(ol, nl)
    IN SlowFinish(ApplyOpcodes(e1, ops, 1, 0, nl), nt, e.caret[1], e.caret[2])

\* The whole call.
ApplyChanges(e, ot, nt) ==
    LET ol == splitlines(ot)
        nl == splitlines(nt)
    IN CASE Path(ot, nt) = "none" -> e
         [] Path(ot, nt) = "fast" -> FastPath(e, ol, nl, nt)
         [] Path(ot, nt) = "slow" -> SlowPath(e, ol, nl, nt)

----------------------------------------------------------------------------
\* State.

VARIABLES
    ed,          \* the host editor: document, line states, caret, call log
    pc,          \* "idle", "entry", "ops", "done"
    entry,       \* the editor as it was when the command or call started
    old_states,  \* fast path: what get_prop(PROP_LINE_STATES) returned
    old_text,    \* arguments of the running call
    new_text,
    carets,      \* slow path: the saved <<caret_x, caret_y>>,
    opcodes,     \*   the edit script,
    opi,         \*   the 1-based index of the next opcode,
    offset,      \*   and the running offset
    cmd          \* the menu command that ran, with what the tool returned

vars == <<ed, pc, entry, old_states, old_text, new_text, carets, opcodes, opi, offset, cmd>>

\* Documents of 1..n lines.
Docs(n) == SeqsOf(LineSet, 1, n)

\* Tags the n lines carry when a command starts: "normal" and "saved" in
\* turn, from either, so that neighbouring lines always differ.
InitialStates(n) ==
    {[i \in 1..n |-> IF i % 2 = 1 THEN s ELSE
                        IF s = LINESTATE_NORMAL THEN LINESTATE_SAVED ELSE LINESTATE_NORMAL] :
        s \in {LINESTATE_NORMAL, LINESTATE_SAVED}}

\* Texts a caller can pass as new_text, and texts the tool can print (the
\* text of the one-line empty document is "").
NewTexts == {JoinLines(d) : d \in Docs(MaxNewLines)}
ToolTexts == {JoinLines(d) : d \in Docs(MaxToolLines)}


\* subprocess.run was not reached.
NoTool == [kind |-> "none", returncode |-> 0, syntax |-> FALSE, stdout |-> <<>>]

\* The record kept of a command: whether subprocess.run was reached, whether
\* '--unsafe-fixes' was on its command line, what it returned, whether the
\* reconciler was called, and the message shown.
CmdRecord(name, answer, ran, flag, tool, applied, msg) ==
    [name |-> name, answer |-> answer, ran |-> ran, unsafe_flag |-> flag,
     tool |-> tool, applied |-> applied, msg |-> msg]

\* No command has run yet.
NoCmd == CmdRecord("none", "", FALSE, FALSE, NoTool, FALSE, "")

Init ==
    /\ ed \in {[lines |-> d, states |-> st, caret |-> <<x, y>>, calls |-> <<>>] :
                  d \in Docs(MaxLines),
                  st \in UNION {InitialStates(n) : n \in 1..MaxLines},
                  x \in 0..1, y \in 0..(MaxLines - 1)}
    /\ Len(ed.states) = Len(ed.lines)
    /\ ed.caret[2] < Len(ed.lines)
    /\ ed.caret[1] <= Len(ed.lines[ed.caret[2] + 1])
    /\ pc = "idle"
    /\ entry = ed
    /\ old_states = <<>>
    /\ old_text = <<>>
    /\ new_text = <<>>
    /\ carets = <<0, 0>>
    /\ opcodes = <<>>
    /\ opi = 0
    /\ offset = 0
    /\ cmd = NoCmd

----------------------------------------------------------------------------
\* _apply_changes_preserving_states(old_text, new_text), step by step, called
\* on the document whose text is old_text.

Call(nt) ==
    /\ pc = "idle"
    /\ pc' = "entry"
    /\ old_text' = get_text_all(ed)
    /\ new_text' = nt
    /\ UNCHANGED <<ed, entry, carets, opcodes, opi, offset, cmd, old_states>>

\* Fast path 1: no changes at all.
NoChanges ==
    /\ pc = "entry"
    /\ Path(old_text, new_text) = "none"
    /\ pc' = "done"
    /\ UNCHANGED <<ed, entry, old_text, new_text, carets, opcodes, opi, offset, cmd, old_states>>

\* Fast path 2: same line count.
SameLineCount ==
    /\ pc = "entry"
    /\ Path(old_text, new_text) = "fast"
    /\ old_states' = ed.states
    /\ ed' = FastPath(ed, splitlines(old_text), splitlines(new_text), new_text)
    /\ pc' = "done"
    /\ UNCHANGED <<entry, old_text, new_text, carets, opcodes, opi, offset, cmd>>

\* Slow path: save the caret, compute the opcodes.
SlowBegin ==
    /\ pc = "entry"
    /\ Path(old_text, new_text) = "slow"
    /\ carets' = ed.caret
    /\ ed' = Log(ed, "get_carets")
    /\ opcodes' = get_opcodes(splitlines(old_text), splitlines(new_text))
    /\ opi' = 1
    /\ offset' = 0
    /\ pc' = "ops"
    /\ UNCHANGED <<entry, old_text, new_text, cmd, old_states>>

\* Slow path: one iteration of the loop over the opcodes.
SlowOp ==
    /\ pc = "ops"
    /\ opi <= Len(opcodes)
    /\ ed' = ApplyOpcode(ed, opcodes[opi], offset, splitlines(new_text))
    /\ offset' = NextOffset(opcodes[opi], offset)
    /\ opi' = opi + 1
    /\ UNCHANGED <<pc, entry, old_text, new_text, carets, opcodes, cmd, old_states>>

\* Slow path: last newline, caret, update.
SlowEnd ==
    /\ pc = "ops"
    /\ opi > Len(opcodes)
    /\ ed' = SlowFinish(ed, new_text, carets[1], carets[2])
    /\ pc' = "done"
    /\ UNCHANGED <<entry, old_text, new_text, carets, opcodes, opi, offset, cmd, old_states>>

Next ==
    \/ \E nt \in NewTexts : Call(nt)
    \/ NoChanges
    \/ SameLineCount
    \/ SlowBegin
    \/ SlowOp
    \/ SlowEnd

Spec == Init /\ [][Next]_vars

----------------------------------------------------------------------------
\* The menu commands fix_file, fix_file_unsafe and format_file.  Each runs to
\* completion in one step: the subprocess is synchronous and the reconciler
\* is called inside the handler.

ID_YES == "yes"
ID_NO == "no"

\* What subprocess.run can do: time out, raise, or return a result with an
\* exit code, stdout, and a stderr that does or does not contain
\* "invalid-syntax" / "Failed to parse" (syntax).
ToolOutcomes ==
    {[kind |-> "timeout", returncode |-> 0, syntax |-> FALSE, stdout |-> <<>>],
     [kind |-> "error", returncode |-> 0, syntax |-> FALSE, stdout |-> <<>>]}
    \cup
    {[kind |-> "result", returncode |-> rc, syntax |-> sx, stdout |-> out] :
        rc \in 0..2, sx \in BOOLEAN, out \in ToolTexts}

\* Confirmed that takes any answer of the dialog.
ConfirmedAnyAnswer(result) == result \in {ID_YES, ID_NO}

\* fix_file_unsafe goes on to _fix_file only on this answer.
Confirmed(result) == result = ID_YES

\* if result.returncode == 0 or result.returncode == 1
FixAccepts(tool) == tool.returncode = 0 \/ tool.returncode = 1

\* The branch of _fix_file that calls the reconciler.
FixApplies(tool, code) ==
    /\ tool.kind = "result"
    /\ FixAccepts(tool)
    /\ ~tool.syntax
    /\ tool.stdout # <<>>
    /\ tool.stdout # code

\* The message _fix_file ends with.
FixMessage(tool, code) ==
    CASE tool.kind = "timeout" -> "box: Ruff --fix timed out"
      [] tool.kind = "error" -> "box: Ruff --fix failed"
      [] tool.kind = "result" /\ ~FixAccepts(tool) -> "status: Ruff --fix error"
      [] tool.kind = "result" /\ FixAccepts(tool) /\ tool.syntax ->
            "status: File has syntax errors - cannot apply fixes"
      [] FixApplies(tool, code) -> "status: Applied fixes"
      [] OTHER -> "status: No fixes needed"

\* The branch of format_file that calls the reconciler.
FormatApplies(tool, code) ==
    /\ tool.kind = "result"
    /\ tool.returncode = 0
    /\ tool.stdout # <<>>
    /\ tool.stdout # code

\* The message format_file ends with.
FormatMessage(tool, code) ==
    CASE tool.kind = "timeout" -> "box: Ruff format timed out"
      [] tool.kind = "error" -> "box: Ruff format failed"
      [] tool.kind = "result" /\ tool.returncode # 0 /\ tool.syntax ->
            "status: File has syntax errors - cannot format"
      [] tool.kind = "result" /\ tool.returncode # 0 -> "status: Ruff format error"
      [] FormatApplies(tool, code) -> "status: Formatted"
      [] OTHER -> "status: Already formatted"

\* Whether Ruff(ed).ruff_path is set: the executable was found.
Found == BOOLEAN

\* _fix_file(unsafe), as the step of command `name`.
RunFix(name, answer, unsafe) ==
    \E found \in Found :
        IF ~found
        THEN /\ cmd' = CmdRecord(name, answer, FALSE, FALSE, NoTool, FALSE,
                                 "box: Ruff executable not found!")
             /\ UNCHANGED <<ed, old_text, new_text>>
        ELSE \E tool \in ToolOutcomes :
             LET code == get_text_all(ed)
                 e1 == Log(Log(ed, "get_text_all"), "get_filename")
                 applies == FixApplies(tool, code)
             IN /\ cmd' = CmdRecord(name, answer, TRUE, unsafe, tool, applies,
                                    FixMessage(tool, code))
                /\ ed' = IF applies THEN ApplyChanges(e1, code, tool.stdout) ELSE e1
                /\ old_text' = IF applies THEN code ELSE old_text
                /\ new_text' = IF applies THEN tool.stdout ELSE new_text

fix_file ==
    /\ pc = "idle"
    /\ pc' = "done"
    /\ RunFix("fix_file", ID_YES, FALSE)
    /\ UNCHANGED <<entry, carets, opcodes, opi, offset, old_states>>

fix_file_unsafe ==
    /\ pc = "idle"
    /\ pc' = "done"
    /\ \E result \in {ID_YES, ID_NO} :
          IF Confirmed(result)
          THEN RunFix("fix_file_unsafe", result, TRUE)
          ELSE /\ cmd' = CmdRecord("fix_file_unsafe", result, FALSE, FALSE, NoTool, FALSE, "")
               /\ UNCHANGED <<ed, old_text, new_text>>
    /\ UNCHANGED <<entry, carets, opcodes, opi, offset, old_states>>

format_file ==
    /\ pc = "idle"
    /\ pc' = "done"
    /\ \E found \in Found :
          IF ~found
          THEN /\ cmd' = CmdRecord("format_file", ID_YES, FALSE, FALSE, NoTool, FALSE,
                                   "box: Ruff executable not found!")
               /\ UNCHANGED <<ed, old_text, new_text>>
          ELSE \E tool \in ToolOutcomes :
               LET code == get_text_all(ed)
                   e1 == Log(Log(ed, "get_text_all"), "get_filename")
                   applies == FormatApplies(tool, code)
               IN /\ cmd' = CmdRecord("format_file", ID_YES, TRUE, FALSE, tool, applies,
                                      FormatMessage(tool, code))
                  /\ ed' = IF applies THEN ApplyChanges(e1, code, tool.stdout) ELSE e1
                  /\ old_text' = IF applies THEN code ELSE old_text
                  /\ new_text' = IF applies THEN tool.stdout ELSE new_text
    /\ UNCHANGED <<entry, carets, opcodes, opi, offset, old_states>>

InitCmd == Init /\ Len(ed.lines) <= MaxCmdLines

NextCmd ==
    \/ fix_file
    \/ fix_file_unsafe
    \/ format_file

SpecCmd == InitCmd /\ [][NextCmd]_vars

----------------------------------------------------------------------------
\* Properties.

old_lines == splitlines(old_text)
new_lines == splitlines(new_text)

\* Host calls that change the content of the document.
ContentMutations == {"replace", "insert", "delete"}
\* Host calls that change anything the user sees.
MutatingCalls == ContentMutations \cup {"set_line_state", "set_caret", "action_update"}

Issued(names) == {i \in DOMAIN ed.calls : ed.calls[i] \in names}

\* C1: when the call has returned, the full text of the document is
\* new_text, trailing terminator included, whichever path was taken.
C1_ContentEqualsNewText ==
    pc = "done" => get_text_all(ed) = new_text

\* C2: reconciling (T, T) issues no host call at all and leaves the
\* document, the line states and the caret as they were.
C2_NoOpIssuesNoCalls ==
    (pc = "done" /\ old_text = new_text) =>
        /\ Issued(MutatingCalls) = {}
        /\ ed.calls = <<>>
        /\ ed.lines = entry.lines
        /\ ed.states = entry.states
        /\ ed.caret = entry.caret

C2_Witness ==
    /\ pc = "done"
    /\ old_text = new_text
    /\ Len(ed.lines) >= 2
    /\ ed.caret # <<0, 0>>

\* C3: after the equal-line-count path, every index i < len(new_lines) with
\* old_lines[i] = new_lines[i] carries the state it had before the call and
\* every other index below len(new_lines) carries "changed".
C3_FastPathStates ==
    (pc = "done" /\ Path(old_text, new_text) = "fast") =>
        \A i \in 0..(Len(new_lines) - 1) :
            /\ i < Len(ed.lines)
            /\ ed.states[i + 1] = IF old_lines[i + 1] = new_lines[i + 1]
                                  THEN entry.states[i + 1]
                                  ELSE LINESTATE_CHANGED

C3_Witness ==
    /\ pc = "done"
    /\ Path(old_text, new_text) = "fast"
    /\ \E i, j \in 0..(Len(new_lines) - 1) :
          /\ old_lines[i + 1] = new_lines[i + 1]
          /\ entry.states[i + 1] = LINESTATE_SAVED
          /\ ed.states[i + 1] = LINESTATE_SAVED
          /\ old_lines[j + 1] # new_lines[j + 1]
          /\ ed.states[j + 1] = LINESTATE_CHANGED

\* C4: after the general path, every line of an `equal` span has the state
\* it had before the call at its old index, and every line of a replace or
\* insert span carries "changed".
C4_GeneralPathStates ==
    (pc = "done" /\ Path(old_text, new_text) = "slow") =>
        \A k \in DOMAIN opcodes :
            LET op == opcodes[k] IN
            IF op.tag = "equal"
            THEN \A d \in 0..(op.i2 - op.i1 - 1) :
                    /\ op.j1 + d < Len(ed.lines)
                    /\ ed.states[op.j1 + d + 1] = entry.states[op.i1 + d + 1]
            ELSE \A j \in op.j1..(op.j2 - 1) :
                    /\ j < Len(ed.lines)
                    /\ ed.states[j + 1] = LINESTATE_CHANGED

\* C5: after a call that changed the document, the caret is the saved caret
\* clamped to the final document: row min(row, line count - 1), column
\* min(col, length of that row).
C5_CaretClamped ==
    (pc = "done" /\ Path(old_text, new_text) # "none") =>
        LET row == Min(entry.caret[2], Len(ed.lines) - 1)
            col == Min(entry.caret[1], Len(ed.lines[row + 1]))
        IN /\ ed.caret = <<col, row>>
           /\ ed.caret[2] \in 0..(Len(ed.lines) - 1)
           /\ ed.caret[1] \in 0..Len(ed.lines[ed.caret[2] + 1])

C5_Witness ==
    /\ pc = "done"
    /\ Path(old_text, new_text) = "slow"
    /\ entry.caret = <<1, 2>>
    /\ ed.caret = <<0, 1>>

\* C6: at the end of the general path the last line is rewritten with a
\* terminator exactly when new_text ends with a terminator and the document
\* does not yet end with one.
C6_RewriteOnlyWhenMissing ==
    [][(pc = "ops" /\ pc' = "done") =>
          ((\E i \in (Len(ed.calls) + 1)..Len(ed'.calls) : ed'.calls[i] = "replace")
             <=> (EndsWithNL(new_text) /\ ~EndsWithNL(get_text_all(ed))))]_vars

\* C9: on the general path the opcodes are in old-line order, and whenever
\* the loop is about to take the next opcode, all lines up to the new-range
\* position j reached so far are in place and the offset is j - i.
C9_OffsetTracking ==
    pc = "ops" =>
        LET i == IF opi = 1 THEN 0 ELSE opcodes[opi - 1].i2
            j == IF opi = 1 THEN 0 ELSE opcodes[opi - 1].j2
        IN /\ offset = j - i
           /\ \A k \in 1..(Len(opcodes) - 1) : opcodes[k].i2 = opcodes[k + 1].i1
           /\ j <= Len(ed.lines)
           /\ Slice(ed.lines, 0, j) = Slice(new_lines, 0, j)

\* C10: the caret, and on the equal-line-count path the line states, are
\* read before the first content mutation, and never after one.
C10_SnapshotBeforeMutation ==
    /\ \A i, j \in DOMAIN ed.calls :
          (i < j /\ ed.calls[i] \in ContentMutations)
              => ed.calls[j] \notin {"get_carets", "get_line_states"}
    /\ Issued(ContentMutations) # {} => Issued({"get_carets"}) # {}
    /\ (Issued(ContentMutations) # {} /\ Path(old_text, new_text) = "fast")
          => Issued({"get_line_states"}) # {}

C10_Witness ==
    /\ pc = "done"
    /\ Path(old_text, new_text) = "fast"
    /\ Issued(ContentMutations) # {}
    /\ Issued({"get_line_states"}) # {}
    /\ ed.lines # entry.lines

----------------------------------------------------------------------------
\* Properties of the menu commands (SpecCmd).

\* What the command's run of the tool counts as a failure or as nothing to do.
ToolRejected ==
    \/ cmd.tool.kind \in {"timeout", "error"}
    \/ cmd.name = "format_file" /\ cmd.tool.returncode # 0
    \/ cmd.name # "format_file" /\ cmd.tool.returncode \notin {0, 1}
    \/ cmd.tool.syntax
    \/ cmd.tool.stdout = <<>>
    \/ cmd.tool.stdout = get_text_all(entry)

\* C7: the reconciler is called only on an accepted exit code with non-empty
\* output that differs from the buffer; on a timeout, an exception, a failing
\* exit code, a syntax error on stderr, or empty or identical output the
\* document, line states and caret are untouched and a message is shown.
C7_AppliedOnlyOnValidOutput ==
    (pc = "done" /\ cmd.ran) =>
        /\ cmd.applied => ~ToolRejected
        /\ ToolRejected =>
              /\ ~cmd.applied
              /\ Issued(MutatingCalls) = {}
              /\ ed.lines = entry.lines
              /\ ed.states = entry.states
              /\ ed.caret = entry.caret
              /\ cmd.msg # ""

\* C8: fix_file_unsafe reaches the tool, with '--unsafe-fixes', only on the
\* answer YES; on another answer nothing runs and the editor is untouched;
\* fix_file never passes '--unsafe-fixes'.
C8_UnsafeOnlyAfterYes ==
    pc = "done" =>
        /\ (cmd.name = "fix_file_unsafe" /\ cmd.answer # ID_YES) =>
              (~cmd.ran /\ ~cmd.applied /\ ~cmd.unsafe_flag /\ ed = entry)
        /\ (cmd.name = "fix_file_unsafe" /\ cmd.ran) => cmd.unsafe_flag
        /\ cmd.unsafe_flag => (cmd.name = "fix_file_unsafe" /\ cmd.answer = ID_YES)
        /\ cmd.name = "fix_file" => ~cmd.unsafe_flag

C8_Witness ==
    /\ pc = "done"
    /\ cmd.name = "fix_file_unsafe"
    /\ cmd.answer = ID_NO
    /\ ~cmd.ran
    /\ Len(ed.lines) >= 2

----------------------------------------------------------------------------
\* Properties of the call sequence.

\* C11: when the texts differ and split into the same number of lines, the
\* call takes the equal-line-count path and changes the content with exactly
\* one host call, a replace of the whole document by new_text; it issues no
\* insert and no delete, however many lines differ.
C11_SingleReplace ==
    (pc = "done" /\ old_text # new_text /\ Len(old_lines) = Len(new_lines)) =>
        /\ Issued({"get_line_states"}) # {}
        /\ Cardinality(Issued(ContentMutations)) = 1
        /\ Cardinality(Issued({"replace"})) = 1
        /\ Issued({"insert", "delete"}) = {}
        /\ ed.lines = HostSplit(new_text)

C11_Witness ==
    /\ pc = "done"
    /\ old_text # new_text
    /\ Len(old_lines) = 3
    /\ Len(new_lines) = 3
    /\ \A i \in 1..3 : old_lines[i] # new_lines[i]
    /\ Cardinality(Issued({"replace"})) = 1

\* C12: on both paths that change the document, every content mutation and
\* every line-state write comes before the one set_caret, and the update
\* action is issued once, as the last host call, after set_caret.
C12_CaretThenUpdateLast ==
    (pc = "done" /\ Path(old_text, new_text) # "none") =>
        /\ Cardinality(Issued({"action_update"})) = 1
        /\ ed.calls[Len(ed.calls)] = "action_update"
        /\ Cardinality(Issued({"set_caret"})) = 1
        /\ Issued(ContentMutations) # {}
        /\ \A i \in Issued(ContentMutations \cup {"set_line_state"}) :
              \A j \in Issued({"set_caret"}) : i < j
        /\ \A j \in Issued({"set_caret"}) :
              \A k \in Issued({"action_update"}) : j < k

C12_Witness ==
    /\ pc = "done"
    /\ Path(old_text, new_text) = "slow"
    /\ Issued({"insert"}) # {}
    /\ Issued({"delete"}) # {}
    /\ Issued({"replace"}) # {}
    /\ ed.calls[Len(ed.calls)] = "action_update"

----------------------------------------------------------------------------
\* The state-restoring block of the fast path on its own: the document has
\* just been replaced by new_text, and old_states is whatever the host
\* returned for PROP_LINE_STATES, of any length.

InitStates ==
    /\ \E d \in Docs(MaxLines), nt \in NewTexts, st \in InitialStates(MaxLines) :
          /\ Path(JoinLines(d), nt) = "fast"
          /\ old_text = JoinLines(d)
          /\ new_text = nt
          /\ ed = ed_replace([lines |-> d, states |-> Slice(st, 0, Len(d)),
                              caret |-> <<0, 0>>, calls |-> <<>>],
                             0, 0, Len(d[Len(d)]), Len(d) - 1, nt)
    /\ old_states \in SeqsOf({LINESTATE_NORMAL, LINESTATE_SAVED}, 0, MaxLines)
    /\ pc = "replaced"
    /\ entry = ed
    /\ carets = <<0, 0>>
    /\ opcodes = <<>>
    /\ opi = 0
    /\ offset = 0
    /\ cmd = NoCmd

RestoreLineStatesStep ==
    /\ pc = "replaced"
    /\ ed' = RestoreLineStates(ed, old_lines, new_lines, old_states)
    /\ pc' = "restored"
    /\ UNCHANGED <<entry, old_states, old_text, new_text, carets, opcodes, opi, offset, cmd>>

NextStates == RestoreLineStatesStep

SpecStates == InitStates /\ [][NextStates]_vars

\* C13: line states are written all or nothing: with an empty snapshot, or
\* one shorter than old_lines, no line state is set and the tags stay as the
\* replace left them; otherwise one line state is set per index below
\* len(new_lines), the old one where the line is unchanged, else "changed".
C13_StatesAllOrNothing ==
    pc = "restored" =>
        IF old_states = <<>> \/ Len(old_states) < Len(old_lines)
        THEN /\ Issued({"set_line_state"}) = {}
             /\ ed = entry
        ELSE /\ Cardinality(Issued({"set_line_state"})) = Len(new_lines)
             /\ Len(ed.calls) = Len(entry.calls) + Len(new_lines)
             /\ \A i \in 0..(Len(new_lines) - 1) :
                   ed.states[i + 1] = IF old_lines[i + 1] = new_lines[i + 1]
                                      THEN old_states[i + 1]
                                      ELSE LINESTATE_CHANGED

C13_Witness ==
    /\ pc = "restored"
    /\ old_states # <<>>
    /\ Len(old_states) < Len(old_lines)
    /\ \E i \in 1..Len(new_lines) : old_lines[i] # new_lines[i]
    /\ Issued({"set_line_state"}) = {}
    /\ LINESTATE_CHANGED \notin {ed.states[i] : i \in 1..Len(new_lines)}

====
